---- MODULE Spec2Model ----
(***************************************************************************)
(* Finance_Tracker: the Telegram bot + Express API that keep a budget row  *)
(* (sheet Budget_Config) and a month ledger (sheet <Month>_<Year>) in a    *)
(* Google spreadsheet, and the day-by-day "piggy bank" budget simulator.   *)
(*                                                                         *)
(* The reference revision is src/unnamed/part_004 lines 58-522             *)
(* ("FinancePulse V7, Clean Mode").  Two earlier revisions of the status   *)
(* computation are modelled next to it: calculateBudgetStats of            *)
(* src/bot/index.js (the "never exceed base" clamp) and the /api/status    *)
(* handler of src/unnamed/part_004 lines 743-820 ("Commander API").  The   *)
(* /delete and /edit commands of the first revision (src/bot/index.js      *)
(* lines 22-80) are modelled as well.                                      *)
(*                                                                         *)
(* Money is an integer number of units; quotients are exact rationals      *)
(* [n, d] in lowest terms (the JavaScript code uses IEEE doubles).  A date *)
(* is a day number; the clock is a day plus a tick within the day, the     *)
(* last tick of a day standing for 23:59:59.999.                           *)
(***************************************************************************)
EXTENDS Integers, Sequences, FiniteSets, TLC

\* ---------------------------------------------------------------- bounds
MaxDay == 3        \* budgets and evaluation days lie in 1..MaxDay (+1 after the end)
MaxLedger == 2     \* rows a month sheet may hold
MaxOps == 3        \* handler invocations in one behaviour
TicksPerDay == 2   \* clock resolution: ticks 0..TicksPerDay-1 within a day

Days == 1..MaxDay
EvalDays == 1..(MaxDay + 1)
Tods == 0..(TicksPerDay - 1)
\* what a message may log: "Item 1", "Item 2", "Item 2 Category fixed"
RowKinds == {[Amount |-> 1, Type |-> "Variable"], [Amount |-> 2, Type |-> "Variable"],
             [Amount |-> 2, Type |-> "Fixed"]}
Principals == {0, 3, 6}           \* Principal of a stored budget row
StoredSpent == {0, 7}             \* Fixed_Spent / Variable_Spent of a stored budget row
CmdPrincipals == {3, 6}           \* amounts a /budget command may give
\* The current month has the days 1..MaxDay+1; the days after it are real calendar
\* dates of the next month, day 0 (and below) is no calendar date.
MonthDays == 1..(MaxDay + 1)
RealDates == 1..(MaxDay + 2)
\* <<start, end>> a /budget command may give
CmdRanges == {<<1, MaxDay>>, <<2, 2>>, <<2, 1>>, <<0, 1>>, <<1, 0>>, <<1, MaxDay + 2>>}
Procs == {1, 2}                   \* concurrently running handlers

\* ------------------------------------------------------------- rationals
Abs(x) == IF x < 0 THEN -x ELSE x

RECURSIVE Gcd(_, _)
Gcd(a, b) == IF b = 0 THEN a ELSE Gcd(b, a % b)

\* n/d in lowest terms with a positive denominator (d # 0)
Rat(n, d) ==
    LET s == IF d < 0 THEN -1 ELSE 1
        g == Gcd(Abs(n), Abs(d))
    IN [n |-> (s * n) \div g, d |-> (s * d) \div g]

RInt(i) == [n |-> i, d |-> 1]
RAdd(a, b) == Rat(a.n * b.d + b.n * a.d, a.d * b.d)
RSub(a, b) == Rat(a.n * b.d - b.n * a.d, a.d * b.d)
RDivInt(a, k) == Rat(a.n, a.d * k)
RMulInt(a, k) == Rat(a.n * k, a.d)
RLt(a, b) == a.n * b.d < b.n * a.d
RLe(a, b) == a.n * b.d <= b.n * a.d
RMax(a, b) == IF RLt(a, b) THEN b ELSE a
RMin(a, b) == IF RLt(b, a) THEN b ELSE a

\* Math.ceil(a / b) for b > 0
Ceil(a, b) == -((-a) \div b)

\* Max with the sign of the floor flipped
Max_negated(a, b) == IF a < b THEN -b ELSE a

Max(a, b) == IF a < b THEN b ELSE a

\* ------------------------------------------------------------ date math
\* new Date(y, m - 1, d): midnight at the start of day d
DateOf(d) == d * TicksPerDay
\* new Date(y2, m2 - 1, d2, 23, 59, 59, 999): the last instant of day d
InclusiveEnd(d) == d * TicksPerDay + (TicksPerDay - 1)
\* getLocalNow() on day `day` at tick `tod`
LocalNow(day, tod) == day * TicksPerDay + tod

\* ------------------------------------------------------- ledger helpers
RECURSIVE SumAmounts(_)
SumAmounts(rows) ==
    IF rows = <<>> THEN 0 ELSE rows[1].Amount + SumAmounts(Tail(rows))

\* dailyMap that counts the rows of every type
RECURSIVE dailyMap_allTypes(_, _)
dailyMap_allTypes(rows, date) ==
    IF rows = <<>> THEN 0
    ELSE (IF rows[1].Date = date THEN rows[1].Amount ELSE 0)
         + dailyMap_allTypes(Tail(rows), date)

\* dailyMap[date] || 0: Variable spending of one date (rows.forEach over the month sheet)
RECURSIVE dailyMap(_, _)
dailyMap(rows, date) ==
    IF rows = <<>> THEN 0
    ELSE (IF rows[1].Date = date /\ rows[1].Type = "Variable" THEN rows[1].Amount ELSE 0)
         + dailyMap(Tail(rows), date)

\* ------------------------------------------------- the budget simulator
NoStats == [active |-> FALSE]

\* WalkStep with the overspend added to the limit instead of amortised away
WalkStep_raise(st, spentThatDay) ==
    LET rem1 == st.rem - 1
        spent == RInt(spentThatDay)
    IN IF RLt(spent, st.lim)
       THEN [lim |-> st.lim, pig |-> RAdd(st.pig, RSub(st.lim, spent)), rem |-> rem1]
       ELSE IF RLt(st.lim, spent)
       THEN [lim |-> IF rem1 > 0 THEN RAdd(st.lim, RDivInt(RSub(spent, st.lim), rem1))
                     ELSE st.lim,
             pig |-> st.pig, rem |-> rem1]
       ELSE [lim |-> st.lim, pig |-> st.pig, rem |-> rem1]

\* WalkStep that divides the overspend by the days remaining before the decrement
WalkStep_lateDecrement(st, spentThatDay) ==
    LET rem1 == st.rem - 1
        spent == RInt(spentThatDay)
    IN IF RLt(spent, st.lim)
       THEN [lim |-> st.lim, pig |-> RAdd(st.pig, RSub(st.lim, spent)), rem |-> rem1]
       ELSE IF RLt(st.lim, spent)
       THEN [lim |-> IF st.rem > 0 THEN RSub(st.lim, RDivInt(RSub(spent, st.lim), st.rem))
                     ELSE st.lim,
             pig |-> st.pig, rem |-> rem1]
       ELSE [lim |-> st.lim, pig |-> st.pig, rem |-> rem1]

\* WalkStep that pays an overspend out of the piggy bank
WalkStep_payback(st, spentThatDay) ==
    LET rem1 == st.rem - 1
        spent == RInt(spentThatDay)
    IN IF RLt(spent, st.lim)
       THEN [lim |-> st.lim, pig |-> RAdd(st.pig, RSub(st.lim, spent)), rem |-> rem1]
       ELSE IF RLt(st.lim, spent)
       THEN [lim |-> st.lim, pig |-> RSub(st.pig, RSub(spent, st.lim)), rem |-> rem1]
       ELSE [lim |-> st.lim, pig |-> st.pig, rem |-> rem1]

\* WalkStep that amortises also when no day remains
WalkStep_unguarded(st, spentThatDay) ==
    LET rem1 == st.rem - 1
        spent == RInt(spentThatDay)
    IN IF RLt(spent, st.lim)
       THEN [lim |-> st.lim, pig |-> RAdd(st.pig, RSub(st.lim, spent)), rem |-> rem1]
       ELSE IF RLt(st.lim, spent)
       THEN [lim |-> IF rem1 >= 0 THEN RSub(st.lim, RDivInt(RSub(spent, st.lim), rem1))
                     ELSE st.lim,
             pig |-> st.pig, rem |-> rem1]
       ELSE [lim |-> st.lim, pig |-> st.pig, rem |-> rem1]

\* One iteration of the while loop: st = [lim, pig, rem] are currentDailyLimit,
\* piggyBank and currentDaysRemaining; spentThatDay is dailyMap[dateKey] || 0.
WalkStep(st, spentThatDay) ==
    LET rem1 == st.rem - 1
        spent == RInt(spentThatDay)
    IN IF RLt(spent, st.lim)
       THEN [lim |-> st.lim, pig |-> RAdd(st.pig, RSub(st.lim, spent)), rem |-> rem1]
       ELSE IF RLt(st.lim, spent)
       THEN [lim |-> IF rem1 > 0 THEN RSub(st.lim, RDivInt(RSub(spent, st.lim), rem1))
                     ELSE st.lim,
             pig |-> st.pig, rem |-> rem1]
       ELSE [lim |-> st.lim, pig |-> st.pig, rem |-> rem1]

\* Walk that goes on through today
RECURSIVE Walk_throughToday(_, _, _, _)
Walk_throughToday(rows, checkDate, yesterday, st) ==
    IF checkDate > yesterday + 1 THEN st
    ELSE Walk_throughToday(rows, checkDate + 1, yesterday,
                           WalkStep(st, dailyMap(rows, checkDate)))

\* while (checkDate <= yesterday) { ...; checkDate.setDate(checkDate.getDate() + 1) }
RECURSIVE Walk(_, _, _, _)
Walk(rows, checkDate, yesterday, st) ==
    IF checkDate > yesterday THEN st
    ELSE Walk(rows, checkDate + 1, yesterday, WalkStep(st, dailyMap(rows, checkDate)))

\* Math.max(0, currentDailyLimit)
realDailyLimit(currentDailyLimit) == RMax(RInt(0), currentDailyLimit)

\* calculateBudgetStats() of the reference revision, as a function of what it reads:
\* the Budget_Config rows, the month sheet (present or not, and its rows) and the clock.
calculateBudgetStats(bRows, sheet, rows, day, tod) ==
    IF bRows = <<>> THEN NoStats
    ELSE
    LET row == bRows[1]
        principal == row.Principal
        fixedSpent == row.Fixed_Spent
        varSpent == row.Variable_Spent
        start == DateOf(row.Start_Date)
        now == LocalNow(day, tod)
        inclusiveEnd == InclusiveEnd(row.End_Date)
        daysLeft == Max(Ceil(inclusiveEnd - now, TicksPerDay), 1)
        totalDuration == Ceil(inclusiveEnd - start, TicksPerDay)
        seen == IF sheet THEN rows ELSE <<>>
        spentToday == dailyMap(seen, day)
        disposableTotal == principal - fixedSpent
        st == Walk(seen, row.Start_Date, day - 1,
                   [lim |-> Rat(disposableTotal, totalDuration), pig |-> RInt(0),
                    rem |-> totalDuration])
        limit == realDailyLimit(st.lim)
    IN [active |-> TRUE, principal |-> principal, fixedSpent |-> fixedSpent,
        varSpent |-> varSpent, daysLeft |-> daysLeft, piggyBank |-> st.pig,
        realDailyLimit |-> limit, spentToday |-> spentToday,
        leftToday |-> RSub(limit, RInt(spentToday))]

\* The walk of src/bot/index.js: only underspend against the fixed base is credited.
RECURSIVE Walk_bot(_, _, _, _, _)
Walk_bot(rows, checkDate, yesterday, baseDailyLimit, piggyBank) ==
    IF checkDate > yesterday THEN piggyBank
    ELSE LET spent == RInt(dailyMap(rows, checkDate))
         IN Walk_bot(rows, checkDate + 1, yesterday, baseDailyLimit,
                     IF RLt(spent, baseDailyLimit)
                     THEN RAdd(piggyBank, RSub(baseDailyLimit, spent))
                     ELSE piggyBank)

\* calculateBudgetStats() of src/bot/index.js (the "never exceed base" clamp)
calculateBudgetStats_bot(bRows, sheet, rows, day, tod) ==
    IF bRows = <<>> THEN NoStats
    ELSE
    LET row == bRows[1]
        principal == row.Principal
        fixedSpent == row.Fixed_Spent
        varSpent == row.Variable_Spent
        start == DateOf(row.Start_Date)
        end == DateOf(row.End_Date)
        now == LocalNow(day, tod)
        daysLeft == Max(Ceil(end - now, TicksPerDay), 1)
        totalDuration == Ceil(end - start, TicksPerDay) + 1
        disposableTotal == principal - fixedSpent
        baseDailyLimit == Rat(disposableTotal, totalDuration)
        piggyBank == IF sheet
                     THEN Walk_bot(rows, row.Start_Date, day - 1, baseDailyLimit, RInt(0))
                     ELSE RInt(0)
        spentToday == IF sheet THEN dailyMap(rows, day) ELSE 0
        rawLimit == Rat(disposableTotal - varSpent, daysLeft)
        limit == RMax(RInt(0), RMin(baseDailyLimit, rawLimit))
    IN [active |-> TRUE, principal |-> principal, fixedSpent |-> fixedSpent,
        varSpent |-> varSpent, daysLeft |-> daysLeft, piggyBank |-> piggyBank,
        realDailyLimit |-> limit, spentToday |-> spentToday,
        leftToday |-> RSub(limit, RInt(spentToday))]

\* The figures of GET /api/status in the "Commander API" revision
status_commander(bRows, sheet, rows, day, tod) ==
    IF bRows = <<>> THEN NoStats
    ELSE
    LET row == bRows[1]
        principal == row.Principal
        fixedSpent == row.Fixed_Spent
        varSpent == row.Variable_Spent
        start == DateOf(row.Start_Date)
        end == DateOf(row.End_Date)
        now == LocalNow(day, tod)
        daysLeft == Max(Ceil(end - now, TicksPerDay), 1)
        totalDuration == Ceil(end - start, TicksPerDay) + 1
        disposableTotal == principal - fixedSpent
        staticCeiling == Rat(disposableTotal, totalDuration)
        spentToday == IF sheet THEN dailyMap(rows, day) ELSE 0
        priorVarSpent == varSpent - spentToday
        morningRemaining == disposableTotal - priorVarSpent
        morningDynamicLimit == Rat(morningRemaining, daysLeft)
        effectiveLimit == RMin(staticCeiling, morningDynamicLimit)
        remainingReal == disposableTotal - varSpent
        nextDays == IF daysLeft > 1 THEN daysLeft - 1 ELSE 1
        tomorrowLimit == Rat(remainingReal, nextDays)
    IN [active |-> TRUE, principal |-> principal, fixedSpent |-> fixedSpent,
        varSpent |-> varSpent, daysLeft |-> daysLeft,
        piggyBank |-> RSub(tomorrowLimit, staticCeiling),
        realDailyLimit |-> effectiveLimit, spentToday |-> spentToday,
        leftToday |-> RSub(effectiveLimit, RInt(spentToday)),
        isWarning |-> RLt(morningDynamicLimit, staticCeiling)]

\* ------------------------------------------------------------- the state
VARIABLES
    budgetSheet,   \* the sheet Budget_Config exists
    budgetRows,    \* its rows: [Start_Date, End_Date, Principal, Fixed_Spent, Variable_Spent]
    monthSheet,    \* the sheet of the current month exists
    ledger,        \* its rows: [Date, Amount, Type]
    today,         \* the current day
    pc,            \* pc[p]: where handler p stands ("idle" between updates)
    loc,           \* loc[p]: the local variables of handler p
    reply,         \* reply[p]: what handler p answered ("none" while it runs)
    snap,          \* the last status snapshot computed (NoSnap before the first)
    snapRows,      \* the ledger rows that snapshot was computed from
    ops            \* handlers started so far

vars == <<budgetSheet, budgetRows, monthSheet, ledger, today, pc, loc, reply, snap,
          snapRows, ops>>

NoSnap == [active |-> FALSE, rev |-> "none"]

NoLoc == [op |-> "none", amount |-> 0, type |-> "Variable", date |-> 0,
          start |-> 0, end |-> 0, principal |-> 0, row |-> <<>>,
          fixedTotal |-> 0, varTotal |-> 0,
          prior |-> <<>>, c0 |-> FALSE, day |-> 0, tod |-> 0,
          nan |-> FALSE, ledger0 |-> <<>>, attempts |-> 0, again |-> FALSE,
          last |-> 0, replies |-> 0]

Idle == \A p \in Procs : pc[p] = "idle"

\* Fixed_Spent + Variable_Spent of the active budget against the month ledger
AggregateTotal == budgetRows[1].Fixed_Spent + budgetRows[1].Variable_Spent
Consistent == budgetRows # <<>> /\ AggregateTotal = SumAmounts(ledger)

\* a handler ends: it answers and its locals go out of scope.  What is kept is a
\* record of the call: the command's arguments and, taken when it started,
\* prior (the Budget_Config rows), ledger0 (the month rows), c0 (Consistent) and
\* again (the caller's previous command was a completed /resync); attempts counts
\* the addRow calls on the month sheet and replies the ctx.reply / res.json calls.
Finish(p, msg) ==
    /\ pc' = [pc EXCEPT ![p] = "idle"]
    /\ reply' = [reply EXCEPT ![p] = msg]
    /\ loc' = [loc EXCEPT ![p] = [@ EXCEPT !.row = <<>>, !.day = 0, !.tod = 0,
                                           !.last = 0, !.replies = @ + 1]]

Goto(p, label) ==
    /\ pc' = [pc EXCEPT ![p] = label]
    /\ UNCHANGED reply

Begin(p) ==
    /\ pc[p] = "idle"
    /\ ops < MaxOps
    /\ ops' = ops + 1

\* row.save(): the cached row's cells are written at the row's position, the first
\* data row of Budget_Config
SaveRow(rows, r) == IF rows = <<>> THEN <<r>> ELSE [rows EXCEPT ![1] = r]

\* isValidDateInCurrentMonth(d, m, y): new Date(y, m - 1, d) gives back d, m and y,
\* that is, d-m-y is a real calendar date (of any month)
isValidDateInCurrentMonth(d) == d \in RealDates

\* ------------------------------------------------ logTransaction (text)
\* Increment that forgets the Fixed branch
Increment_variableOnly(row, type, amount) ==
    IF type = "Fixed" THEN row ELSE [row EXCEPT !.Variable_Spent = @ + amount]

\* fixedSpent += amount / varSpent += amount on the row just read
Increment(row, type, amount) ==
    IF type = "Fixed"
    THEN [row EXCEPT !.Fixed_Spent = @ + amount]
    ELSE [row EXCEPT !.Variable_Spent = @ + amount]

LogStart(p, amount, type, nan) ==
    /\ Begin(p)
    /\ Len(ledger) < MaxLedger
    /\ pc' = [pc EXCEPT ![p] = IF nan THEN "idle" ELSE "log_sheet"]
    /\ reply' = [reply EXCEPT ![p] = IF nan THEN "Format" ELSE "none"]
    /\ loc' = [loc EXCEPT ![p] = [NoLoc EXCEPT !.op = "log", !.amount = amount,
                                   !.type = type, !.nan = nan, !.c0 = Consistent,
                                   !.prior = budgetRows, !.ledger0 = ledger,
                                   !.replies = IF nan THEN 1 ELSE 0]]
    /\ UNCHANGED <<budgetSheet, budgetRows, monthSheet, ledger, today, snap, snapRows>>

\* getOrCreateSheet(sheetName); todayFormatted = getTodayDate()
LogSheet(p, ok) ==
    /\ pc[p] = "log_sheet"
    /\ IF ok
       THEN /\ monthSheet' = TRUE
            /\ loc' = [loc EXCEPT ![p].date = today]
            /\ Goto(p, "log_add")
       ELSE /\ UNCHANGED monthSheet
            /\ Finish(p, "ErrorSaving")
    /\ UNCHANGED <<budgetSheet, budgetRows, ledger, today, snap, snapRows, ops>>

LedgerRow(l) == [Date |-> l.date, Amount |-> l.amount, Type |-> l.type]

\* try { await sheet.addRow(...) }
LogAdd(p, ok) ==
    /\ pc[p] = "log_add"
    /\ IF ok
       THEN /\ ledger' = Append(ledger, LedgerRow(loc[p]))
            /\ Goto(p, "log_bsheet")
       ELSE /\ UNCHANGED ledger
            /\ Goto(p, "log_retry")
    /\ loc' = [loc EXCEPT ![p].attempts = @ + 1]
    /\ UNCHANGED <<budgetSheet, budgetRows, monthSheet, today, snap, snapRows, ops>>

\* LogRetry that tries again after a failed retry
LogRetry_again(p, ok) ==
    /\ pc[p] = "log_retry"
    /\ IF ok
       THEN /\ ledger' = Append(ledger, LedgerRow(loc[p]))
            /\ monthSheet' = TRUE
            /\ Goto(p, "log_bsheet")
       ELSE /\ UNCHANGED <<ledger, monthSheet>>
            /\ Goto(p, "log_retry")
    /\ loc' = [loc EXCEPT ![p].attempts = IF @ < MaxOps THEN @ + 1 ELSE @]
    /\ UNCHANGED <<budgetSheet, budgetRows, today, snap, snapRows, ops>>

\* LogRetry that goes on to the budget update when the retry has failed too
LogRetry_swallow(p, ok) ==
    /\ pc[p] = "log_retry"
    /\ IF ok
       THEN /\ ledger' = Append(ledger, LedgerRow(loc[p]))
            /\ monthSheet' = TRUE
       ELSE UNCHANGED <<ledger, monthSheet>>
    /\ Goto(p, "log_bsheet")
    /\ loc' = [loc EXCEPT ![p].attempts = @ + 1]
    /\ UNCHANGED <<budgetSheet, budgetRows, today, snap, snapRows, ops>>

\* catch (e) { loadInfo(); getOrCreateSheet(sheetName); addRow(...) }: the one retry;
\* an error in it reaches the outer catch
LogRetry(p, ok) ==
    /\ pc[p] = "log_retry"
    /\ IF ok
       THEN /\ ledger' = Append(ledger, LedgerRow(loc[p]))
            /\ monthSheet' = TRUE
            /\ Goto(p, "log_bsheet")
            /\ loc' = [loc EXCEPT ![p].attempts = @ + 1]
       ELSE /\ UNCHANGED <<ledger, monthSheet>>
            /\ pc' = [pc EXCEPT ![p] = "idle"]
            /\ reply' = [reply EXCEPT ![p] = "ErrorSaving"]
            /\ loc' = [loc EXCEPT ![p].attempts = @ + 1, ![p].replies = @ + 1]
    /\ UNCHANGED <<budgetSheet, budgetRows, today, snap, snapRows, ops>>

\* getBudgetSheet() inside the inner try: a failure is logged and the reply is the success
LogBudgetSheet(p, ok) ==
    /\ pc[p] = "log_bsheet"
    /\ IF ok
       THEN /\ budgetSheet' = TRUE
            /\ Goto(p, "log_rows")
            /\ UNCHANGED loc
       ELSE /\ UNCHANGED budgetSheet
            /\ Finish(p, "Logged")
    /\ UNCHANGED <<budgetRows, monthSheet, ledger, today, snap, snapRows, ops>>

\* budgetSheet.getRows(); row = budgetRows[0]; fixedSpent/varSpent += amount; row.set(...)
LogRows(p, ok) ==
    /\ pc[p] = "log_rows"
    /\ IF ok /\ budgetRows # <<>>
       THEN /\ loc' = [loc EXCEPT ![p].row =
                          <<Increment(budgetRows[1], loc[p].type, loc[p].amount)>>]
            /\ Goto(p, "log_save")
       ELSE /\ Finish(p, "Logged")
    /\ UNCHANGED <<budgetSheet, budgetRows, monthSheet, ledger, today, snap, snapRows, ops>>

\* row.save(); then calculateBudgetStats() only formats the reply
LogSave(p, ok) ==
    /\ pc[p] = "log_save"
    /\ IF ok
       THEN budgetRows' = SaveRow(budgetRows, loc[p].row[1])
       ELSE UNCHANGED budgetRows
    /\ Finish(p, "Logged")
    /\ UNCHANGED <<budgetSheet, monthSheet, ledger, today, snap, snapRows, ops>>

\* ------------------------------------------------------------- /budget
NewBudgetRow(l) ==
    [Start_Date |-> l.start, End_Date |-> l.end, Principal |-> l.principal,
     Fixed_Spent |-> 0, Variable_Spent |-> 0]

\* the checks before the try block: the message of the first one that fails, or "none"
budgetValidation(start, end, nan) ==
    IF nan THEN "AmountNaN"
    ELSE IF ~isValidDateInCurrentMonth(start) THEN "InvalidStart"
    ELSE IF ~isValidDateInCurrentMonth(end) THEN "InvalidEnd"
    ELSE IF start > end THEN "StartAfterEnd"
    ELSE "none"

\* The checks of /budget in the "Commander API" revision: it reads the property
\* .valid of the boolean isValidDateInCurrentMonth returns, which is undefined, so
\* the start date check rejects every date.
budgetValidation_commander(start, end, nan) ==
    IF nan THEN "AmountNaN" ELSE "InvalidStart"

\* a /budget command arrives: msg is what its checks answer
BudgetCall(p, start, end, amount, nan, msg) ==
    /\ Begin(p)
    /\ pc' = [pc EXCEPT ![p] = IF msg = "none" THEN "bud_sheet" ELSE "idle"]
    /\ reply' = [reply EXCEPT ![p] = msg]
    /\ loc' = [loc EXCEPT ![p] = [NoLoc EXCEPT !.op = "budget", !.start = start,
                                   !.end = end, !.principal = amount, !.nan = nan,
                                   !.prior = budgetRows, !.ledger0 = ledger,
                                   !.replies = IF msg = "none" THEN 0 ELSE 1]]
    /\ UNCHANGED <<budgetSheet, budgetRows, monthSheet, ledger, today, snap, snapRows>>

BudgetStart(p, start, end, amount, nan) ==
    BudgetCall(p, start, end, amount, nan, budgetValidation(start, end, nan))

BudgetStart_commander(p, start, end, amount, nan) ==
    BudgetCall(p, start, end, amount, nan, budgetValidation_commander(start, end, nan))

BudgetSheet(p, ok) ==
    /\ pc[p] = "bud_sheet"
    /\ IF ok
       THEN /\ budgetSheet' = TRUE
            /\ Goto(p, "bud_clear")
            /\ UNCHANGED loc
       ELSE /\ UNCHANGED budgetSheet
            /\ Finish(p, "SystemError")
    /\ UNCHANGED <<budgetRows, monthSheet, ledger, today, snap, snapRows, ops>>

\* await sheet.clearRows()
BudgetClear(p, ok) ==
    /\ pc[p] = "bud_clear"
    /\ IF ok
       THEN /\ budgetRows' = <<>>
            /\ Goto(p, "bud_add")
            /\ UNCHANGED loc
       ELSE /\ UNCHANGED budgetRows
            /\ Finish(p, "SystemError")
    /\ UNCHANGED <<budgetSheet, monthSheet, ledger, today, snap, snapRows, ops>>

\* await sheet.addRow({..., Fixed_Spent: 0, Variable_Spent: 0, Status: 'Active'})
BudgetAdd(p, ok) ==
    /\ pc[p] = "bud_add"
    /\ IF ok
       THEN /\ budgetRows' = Append(budgetRows, NewBudgetRow(loc[p]))
            /\ Finish(p, "BudgetSet")
       ELSE /\ UNCHANGED budgetRows
            /\ Finish(p, "SystemError")
    /\ UNCHANGED <<budgetSheet, monthSheet, ledger, today, snap, snapRows, ops>>

\* -------------------------------------------------------- /clearbudget
ClearStart(p) ==
    /\ Begin(p)
    /\ pc' = [pc EXCEPT ![p] = "clr_sheet"]
    /\ reply' = [reply EXCEPT ![p] = "none"]
    /\ loc' = [loc EXCEPT ![p] = [NoLoc EXCEPT !.op = "clearbudget", !.ledger0 = ledger]]
    /\ UNCHANGED <<budgetSheet, budgetRows, monthSheet, ledger, today, snap, snapRows>>

ClearSheet(p, ok) ==
    /\ pc[p] = "clr_sheet"
    /\ IF ok
       THEN /\ budgetSheet' = TRUE
            /\ Goto(p, "clr_clear")
            /\ UNCHANGED loc
       ELSE /\ UNCHANGED budgetSheet
            /\ Finish(p, "Failed")
    /\ UNCHANGED <<budgetRows, monthSheet, ledger, today, snap, snapRows, ops>>

\* ClearRows that clears the month sheet as well
ClearRows_wipe(p, ok) ==
    /\ pc[p] = "clr_clear"
    /\ IF ok
       THEN /\ budgetRows' = <<>>
            /\ ledger' = <<>>
            /\ Finish(p, "Cleared")
       ELSE /\ UNCHANGED <<budgetRows, ledger>>
            /\ Finish(p, "Failed")
    /\ UNCHANGED <<budgetSheet, monthSheet, today, snap, snapRows, ops>>

\* await sheet.clearRows(); reply
ClearRows(p, ok) ==
    /\ pc[p] = "clr_clear"
    /\ IF ok
       THEN /\ budgetRows' = <<>>
            /\ Finish(p, "Cleared")
       ELSE /\ UNCHANGED budgetRows
            /\ Finish(p, "Failed")
    /\ UNCHANGED <<budgetSheet, monthSheet, ledger, today, snap, snapRows, ops>>

\* -------------------------------------------------------------- /resync
\* fixedTotal that counts every row
fixedTotal_all(rows) == SumAmounts(rows)

\* rows.forEach: if (type === 'Fixed') fixedTotal += amt; else varTotal += amt
RECURSIVE fixedTotal(_)
fixedTotal(rows) ==
    IF rows = <<>> THEN 0
    ELSE (IF rows[1].Type = "Fixed" THEN rows[1].Amount ELSE 0) + fixedTotal(Tail(rows))

RECURSIVE varTotal(_)
varTotal(rows) ==
    IF rows = <<>> THEN 0
    ELSE (IF rows[1].Type = "Fixed" THEN 0 ELSE rows[1].Amount) + varTotal(Tail(rows))

ResyncStart(p) ==
    /\ Begin(p)
    /\ pc' = [pc EXCEPT ![p] = "rs_month"]
    /\ reply' = [reply EXCEPT ![p] = "none"]
    /\ loc' = [loc EXCEPT ![p] = [NoLoc EXCEPT !.op = "resync", !.prior = budgetRows,
                                   !.again = (loc[p].op = "resync"
                                              /\ reply[p] = "ResyncComplete")]]
    /\ UNCHANGED <<budgetSheet, budgetRows, monthSheet, ledger, today, snap, snapRows>>

\* doc.loadInfo(); monthSheet = doc.sheetsByTitle[...]; rows = monthSheet.getRows()
ResyncMonth(p, ok) ==
    /\ pc[p] = "rs_month"
    /\ IF ~ok THEN Finish(p, "ResyncFailed")
       ELSE IF ~monthSheet THEN Finish(p, "NoData")
       ELSE /\ loc' = [loc EXCEPT ![p].fixedTotal = fixedTotal(ledger),
                                  ![p].varTotal = varTotal(ledger)]
            /\ Goto(p, "rs_bsheet")
    /\ UNCHANGED <<budgetSheet, budgetRows, monthSheet, ledger, today, snap, snapRows, ops>>

ResyncBudgetSheet(p, ok) ==
    /\ pc[p] = "rs_bsheet"
    /\ IF ok
       THEN /\ budgetSheet' = TRUE
            /\ Goto(p, "rs_rows")
            /\ UNCHANGED loc
       ELSE /\ UNCHANGED budgetSheet
            /\ Finish(p, "ResyncFailed")
    /\ UNCHANGED <<budgetRows, monthSheet, ledger, today, snap, snapRows, ops>>

\* Resynced that adds the totals to the stored aggregates
Resynced_accumulate(row, fixed, var) ==
    [row EXCEPT !.Fixed_Spent = @ + fixed, !.Variable_Spent = @ + var]

\* row.set('Fixed_Spent', fixedTotal); row.set('Variable_Spent', varTotal)
Resynced(row, fixed, var) ==
    [row EXCEPT !.Fixed_Spent = fixed, !.Variable_Spent = var]

\* budgetRows = budgetSheet.getRows(); row = budgetRows[0]; row.set(...)
ResyncRows(p, ok) ==
    /\ pc[p] = "rs_rows"
    /\ IF ~ok THEN Finish(p, "ResyncFailed")
       ELSE IF budgetRows = <<>> THEN Finish(p, "NoBudget")
       ELSE /\ loc' = [loc EXCEPT ![p].row =
                          <<Resynced(budgetRows[1], loc[p].fixedTotal, loc[p].varTotal)>>]
            /\ Goto(p, "rs_save")
    /\ UNCHANGED <<budgetSheet, budgetRows, monthSheet, ledger, today, snap, snapRows, ops>>

ResyncSave(p, ok) ==
    /\ pc[p] = "rs_save"
    /\ IF ok
       THEN /\ budgetRows' = SaveRow(budgetRows, loc[p].row[1])
            /\ Finish(p, "ResyncComplete")
       ELSE /\ UNCHANGED budgetRows
            /\ Finish(p, "ResyncFailed")
    /\ UNCHANGED <<budgetSheet, monthSheet, ledger, today, snap, snapRows, ops>>

\* ------------------------------------------- GET /api/status and /show
StatusStart(p) ==
    /\ Begin(p)
    /\ pc' = [pc EXCEPT ![p] = "st_bsheet"]
    /\ reply' = [reply EXCEPT ![p] = "none"]
    /\ loc' = [loc EXCEPT ![p] = [NoLoc EXCEPT !.op = "status"]]
    /\ UNCHANGED <<budgetSheet, budgetRows, monthSheet, ledger, today, snap, snapRows>>

\* calculateBudgetStats: budgetSheet = await getBudgetSheet()
StatusBudgetSheet(p, ok) ==
    /\ pc[p] = "st_bsheet"
    /\ IF ok
       THEN /\ budgetSheet' = TRUE
            /\ Goto(p, "st_rows")
            /\ UNCHANGED loc
       ELSE /\ UNCHANGED budgetSheet
            /\ Finish(p, "StatusError")
    /\ UNCHANGED <<budgetRows, monthSheet, ledger, today, snap, snapRows, ops>>

\* budgetRows = await budgetSheet.getRows(); if none: null; now = getLocalNow()
StatusRows(p, ok, tod) ==
    /\ pc[p] = "st_rows"
    /\ IF ~ok
       THEN /\ Finish(p, "StatusError")
            /\ UNCHANGED <<snap, snapRows>>
       ELSE IF budgetRows = <<>>
       THEN /\ Finish(p, "Inactive")
            /\ snap' = [active |-> FALSE, rev |-> "part_004"]
            /\ snapRows' = <<>>
       ELSE /\ loc' = [loc EXCEPT ![p].row = <<budgetRows[1]>>, ![p].day = today,
                                  ![p].tod = tod]
            /\ Goto(p, "st_month")
            /\ UNCHANGED <<snap, snapRows>>
    /\ UNCHANGED <<budgetSheet, budgetRows, monthSheet, ledger, today, ops>>

\* the snapshot returned, with the revision that computed it and the time it read
Stamp(stats, rev, now) ==
    [x \in DOMAIN stats \cup {"rev", "now"} |->
        IF x = "rev" THEN rev ELSE IF x = "now" THEN now ELSE stats[x]]

\* apiResponse that warns already when nothing is left
apiResponse_nonPositive(stats) ==
    IF ~stats.active THEN stats
    ELSE [x \in DOMAIN stats \cup {"isWarning"} |->
             IF x = "isWarning" THEN RLe(stats.leftToday, RInt(0)) ELSE stats[x]]

\* res.json({active: true, ..., limits: {..., isWarning: stats.leftToday < 0}}); /show
\* picks its emoji by the same test
apiResponse(stats) ==
    IF ~stats.active THEN stats
    ELSE [x \in DOMAIN stats \cup {"isWarning"} |->
             IF x = "isWarning" THEN RLt(stats.leftToday, RInt(0)) ELSE stats[x]]

\* rows = await monthSheet.getRows(); the walk; the snapshot is returned
StatusMonth(p, ok) ==
    /\ pc[p] = "st_month"
    /\ IF ok
       THEN /\ snap' = Stamp(apiResponse(calculateBudgetStats(loc[p].row, monthSheet,
                                                              ledger, loc[p].day,
                                                              loc[p].tod)),
                              "part_004", LocalNow(loc[p].day, loc[p].tod))
            /\ snapRows' = IF monthSheet THEN ledger ELSE <<>>
            /\ Finish(p, "Active")
       ELSE /\ UNCHANGED <<snap, snapRows>>
            /\ Finish(p, "StatusError")
    /\ UNCHANGED <<budgetSheet, budgetRows, monthSheet, ledger, today, ops>>

\* ------------------------- /delete and /edit (src/bot/index.js 22-80)
\* This revision keeps the transactions in the first sheet of the document
\* (doc.sheetsByIndex[0]); loc.last is the row number of the last row read.
DeleteStart(p) ==
    /\ Begin(p)
    /\ pc' = [pc EXCEPT ![p] = "del_rows"]
    /\ reply' = [reply EXCEPT ![p] = "none"]
    /\ loc' = [loc EXCEPT ![p] = [NoLoc EXCEPT !.op = "delete", !.ledger0 = ledger]]
    /\ UNCHANGED <<budgetSheet, budgetRows, monthSheet, ledger, today, snap, snapRows>>

\* doc.loadInfo(); rows = await sheet.getRows(); lastRow = rows[rows.length - 1]
DeleteRows(p, ok) ==
    /\ pc[p] = "del_rows"
    /\ IF ~ok THEN Finish(p, "DeleteFailed")
       ELSE IF ledger = <<>> THEN Finish(p, "AlreadyEmpty")
       ELSE /\ loc' = [loc EXCEPT ![p].last = Len(ledger)]
            /\ Goto(p, "del_last")
    /\ UNCHANGED <<budgetSheet, budgetRows, monthSheet, ledger, today, snap, snapRows, ops>>

\* the sheet without its row number n
RemoveRow(rows, n) ==
    IF n \in 1..Len(rows)
    THEN SubSeq(rows, 1, n - 1) \o SubSeq(rows, n + 1, Len(rows))
    ELSE rows

\* await lastRow.delete()
DeleteLast(p, ok) ==
    /\ pc[p] = "del_last"
    /\ IF ok
       THEN /\ ledger' = RemoveRow(ledger, loc[p].last)
            /\ Finish(p, "Deleted")
       ELSE /\ UNCHANGED ledger
            /\ Finish(p, "DeleteFailed")
    /\ UNCHANGED <<budgetSheet, budgetRows, monthSheet, today, snap, snapRows, ops>>

EditStart(p, amount, nan) ==
    /\ Begin(p)
    /\ pc' = [pc EXCEPT ![p] = IF nan THEN "idle" ELSE "edit_rows"]
    /\ reply' = [reply EXCEPT ![p] = IF nan THEN "EditUsage" ELSE "none"]
    /\ loc' = [loc EXCEPT ![p] = [NoLoc EXCEPT !.op = "edit", !.amount = amount,
                                   !.nan = nan, !.ledger0 = ledger,
                                   !.replies = IF nan THEN 1 ELSE 0]]
    /\ UNCHANGED <<budgetSheet, budgetRows, monthSheet, ledger, today, snap, snapRows>>

\* rows = await sheet.getRows(); lastRow.set('Item' / 'Amount' / 'Category' / 'Date'):
\* the new amount and today's date on the cached last row, its other cells as read
EditRows(p, ok) ==
    /\ pc[p] = "edit_rows"
    /\ IF ~ok THEN Finish(p, "EditFailed")
       ELSE IF ledger = <<>> THEN Finish(p, "NothingToEdit")
       ELSE /\ loc' = [loc EXCEPT ![p].last = Len(ledger),
                                  ![p].row = <<[ledger[Len(ledger)] EXCEPT
                                                  !.Amount = loc[p].amount,
                                                  !.Date = today]>>]
            /\ Goto(p, "edit_save")
    /\ UNCHANGED <<budgetSheet, budgetRows, monthSheet, ledger, today, snap, snapRows, ops>>

\* row.save() of a ledger row: its cells are written at the row's number
SaveLedgerRow(rows, n, r) ==
    IF n \in 1..Len(rows) THEN [rows EXCEPT ![n] = r] ELSE Append(rows, r)

\* await lastRow.save()
EditSave(p, ok) ==
    /\ pc[p] = "edit_save"
    /\ IF ok
       THEN /\ ledger' = SaveLedgerRow(ledger, loc[p].last, loc[p].row[1])
            /\ Finish(p, "Updated")
       ELSE /\ UNCHANGED ledger
            /\ Finish(p, "EditFailed")
    /\ UNCHANGED <<budgetSheet, budgetRows, monthSheet, today, snap, snapRows, ops>>

\* ------------------------------------------------------------ the clock
Tick ==
    /\ today < MaxDay + 1
    /\ today' = today + 1
    /\ UNCHANGED <<budgetSheet, budgetRows, monthSheet, ledger, pc, loc, reply, snap,
                   snapRows, ops>>

\* ----------------------------------------------------- specifications
Init ==
    /\ budgetSheet = FALSE
    /\ budgetRows = <<>>
    /\ monthSheet = FALSE
    /\ ledger = <<>>
    /\ today = 1
    /\ pc = [p \in Procs |-> "idle"]
    /\ loc = [p \in Procs |-> NoLoc]
    /\ reply = [p \in Procs |-> "none"]
    /\ snap = NoSnap
    /\ snapRows = <<>>
    /\ ops = 0

\* one step of a handler p; ok: the storage call of the step succeeds
LogSteps(p, ok) ==
    \/ \E k \in RowKinds, nan \in BOOLEAN : LogStart(p, k.Amount, k.Type, nan)
    \/ LogSheet(p, ok)
    \/ LogAdd(p, ok)
    \/ LogBudgetSheet(p, ok)
    \/ LogRows(p, ok)
    \/ LogSave(p, ok)

BudgetSteps(p, ok) ==
    \/ \E r \in CmdRanges, a \in CmdPrincipals, nan \in BOOLEAN :
          BudgetStart(p, r[1], r[2], a, nan)
    \/ BudgetSheet(p, ok)
    \/ BudgetClear(p, ok)
    \/ BudgetAdd(p, ok)

ClearSteps(p, ok) ==
    \/ ClearStart(p)
    \/ ClearSheet(p, ok)
    \/ ClearRows(p, ok)

ResyncSteps(p, ok) ==
    \/ ResyncStart(p)
    \/ ResyncMonth(p, ok)
    \/ ResyncBudgetSheet(p, ok)
    \/ ResyncRows(p, ok)
    \/ ResyncSave(p, ok)

StatusSteps(p, ok) ==
    \/ StatusStart(p)
    \/ StatusBudgetSheet(p, ok)
    \/ \E tod \in Tods : StatusRows(p, ok, tod)
    \/ StatusMonth(p, ok)

Step(p, ok) ==
    \/ LogSteps(p, ok)
    \/ BudgetSteps(p, ok)
    \/ ClearSteps(p, ok)
    \/ ResyncSteps(p, ok)
    \/ StatusSteps(p, ok)

\* concurrent handlers, storage calls may fail (the retry runs only after a failure)
Next ==
    \/ \E p \in Procs, ok \in BOOLEAN : Step(p, ok) \/ LogRetry(p, ok)
    \/ Tick
Spec == Init /\ [][Next]_vars

\* one handler at a time, no storage failure
NextSeq == Step(1, TRUE) \/ Tick
SpecSeq == Init /\ [][NextSeq]_vars

\* concurrent handlers, no storage failure
NextConc == (\E p \in Procs : Step(p, TRUE)) \/ Tick
SpecConc == Init /\ [][NextConc]_vars

\* one handler at a time, storage calls may fail
NextFail == (\E ok \in BOOLEAN : Step(1, ok) \/ LogRetry(1, ok)) \/ Tick
SpecFail == Init /\ [][NextFail]_vars

\* A budget has just been set on an empty month; then only transactions are logged
\* and the status is read, concurrently and without storage failure.
InitLog ==
    /\ budgetSheet = TRUE
    /\ budgetRows \in {<<NewBudgetRow([start |-> r[1], end |-> r[2], principal |-> a])>> :
                         r \in {x \in CmdRanges : isValidDateInCurrentMonth(x[1])
                                                  /\ isValidDateInCurrentMonth(x[2])
                                                  /\ x[2] \in Days
                                                  /\ x[1] <= x[2]},
                         a \in CmdPrincipals}
    /\ monthSheet = FALSE
    /\ ledger = <<>>
    /\ today = 1
    /\ pc = [p \in Procs |-> "idle"]
    /\ loc = [p \in Procs |-> NoLoc]
    /\ reply = [p \in Procs |-> "none"]
    /\ snap = NoSnap
    /\ snapRows = <<>>
    /\ ops = 0

NextLog == (\E p \in Procs : LogSteps(p, TRUE) \/ StatusSteps(p, TRUE)) \/ Tick
SpecLog == InitLog /\ [][NextLog]_vars

\* ---------------------------------------- the simulator on drawn inputs
\* month sheets whose rows were logged on days 1..day, in order
SimRows(day) == {[Date |-> d, Amount |-> k.Amount, Type |-> k.Type] :
                    d \in 1..day, k \in RowKinds}
Sorted(rows) == \A i \in 1..(Len(rows) - 1) : rows[i].Date <= rows[i + 1].Date
SimLedgers(day) ==
    {rows \in UNION {[1..n -> SimRows(day)] : n \in 0..MaxLedger} : Sorted(rows)}

\* stored budget rows: what /budget accepts (start <= end), with any aggregates
SimBudgets ==
    {<<[Start_Date |-> s, End_Date |-> e, Principal |-> a, Fixed_Spent |-> f,
        Variable_Spent |-> v]>> :
        s \in Days, e \in Days, a \in Principals, f \in StoredSpent, v \in StoredSpent}

InitSim ==
    /\ budgetSheet = TRUE
    /\ budgetRows \in {b \in SimBudgets : b[1].Start_Date <= b[1].End_Date} \cup {<<>>}
    /\ today \in EvalDays
    /\ monthSheet \in BOOLEAN
    /\ ledger \in (IF monthSheet THEN SimLedgers(today) ELSE {<<>>})
    /\ pc = [p \in Procs |-> "idle"]
    /\ loc = [p \in Procs |-> NoLoc]
    /\ reply = [p \in Procs |-> "none"]
    /\ snap = NoSnap
    /\ snapRows = <<>>
    /\ ops = 0

Snapshot(stats, rev, tod) ==
    /\ snap' = Stamp(stats, rev, LocalNow(today, tod))
    /\ snapRows' = IF monthSheet THEN ledger ELSE <<>>
    /\ UNCHANGED <<budgetSheet, budgetRows, monthSheet, ledger, today, pc, loc, reply, ops>>

\* GET /api/status of the reference revision, run without interleaving
apiStatus(tod) ==
    Snapshot(apiResponse(calculateBudgetStats(budgetRows, monthSheet, ledger, today, tod)),
             "part_004", tod)

\* GET /api/status of src/bot/index.js
apiStatus_bot(tod) ==
    Snapshot(apiResponse(calculateBudgetStats_bot(budgetRows, monthSheet, ledger, today, tod)),
             "bot", tod)

\* GET /api/status of the "Commander API" revision
apiStatus_commander(tod) ==
    Snapshot(status_commander(budgetRows, monthSheet, ledger, today, tod), "commander", tod)

NextSim == \E tod \in Tods : apiStatus(tod)
SpecSim == InitSim /\ [][NextSim]_vars

\* the three revisions of the status computation side by side
NextRev == \E tod \in Tods : apiStatus(tod) \/ apiStatus_bot(tod) \/ apiStatus_commander(tod)
SpecRev == InitSim /\ [][NextRev]_vars

\* the three revisions on every drawn budget row and evaluation day, before anything
\* is logged in the month (daysLeft is computed from the dates and the clock alone)
InitDays ==
    /\ budgetSheet = TRUE
    /\ budgetRows \in {b \in SimBudgets : b[1].Start_Date <= b[1].End_Date}
    /\ today \in EvalDays
    /\ monthSheet = FALSE
    /\ ledger = <<>>
    /\ pc = [p \in Procs |-> "idle"]
    /\ loc = [p \in Procs |-> NoLoc]
    /\ reply = [p \in Procs |-> "none"]
    /\ snap = NoSnap
    /\ snapRows = <<>>
    /\ ops = 0

SpecDays == InitDays /\ [][NextRev]_vars

\* /resync alone, one call after the other, on drawn budgets and month sheets
NextResync == ResyncSteps(1, TRUE)
SpecResync == InitSim /\ [][NextResync]_vars

\* /budget of the reference revision and of the "Commander API" revision between
\* transactions, one handler at a time, no storage failure
NextSet ==
    \/ BudgetSteps(1, TRUE)
    \/ \E r \in CmdRanges, a \in CmdPrincipals, nan \in BOOLEAN :
          BudgetStart_commander(1, r[1], r[2], a, nan)
    \/ LogSteps(1, TRUE)
SpecSet == Init /\ [][NextSet]_vars

\* transactions on a budget just set, storage calls may fail; a handler that can take
\* a step eventually takes one (every awaited storage call returns or throws)
NextRetry == \E ok \in BOOLEAN : LogSteps(1, ok) \/ LogRetry(1, ok)
SpecRetry == InitLog /\ [][NextRetry]_vars /\ WF_vars(NextRetry)

\* the reference simulator on stores whose aggregates agree with the month sheet (what
\* /resync leaves): every drawn budget period and principal, month sheet and day
InitWalk ==
    /\ budgetSheet = TRUE
    /\ today \in EvalDays
    /\ monthSheet \in BOOLEAN
    /\ ledger \in (IF monthSheet THEN SimLedgers(today) ELSE {<<>>})
    /\ budgetRows \in {<<[Start_Date |-> s, End_Date |-> e, Principal |-> a,
                           Fixed_Spent |-> fixedTotal(ledger),
                           Variable_Spent |-> varTotal(ledger)]>> :
                           s \in Days, e \in Days, a \in Principals}
    /\ budgetRows[1].Start_Date <= budgetRows[1].End_Date
    /\ pc = [p \in Procs |-> "idle"]
    /\ loc = [p \in Procs |-> NoLoc]
    /\ reply = [p \in Procs |-> "none"]
    /\ snap = NoSnap
    /\ snapRows = <<>>
    /\ ops = 0

SpecWalk == InitWalk /\ [][NextSim]_vars

DeleteSteps(p, ok) ==
    \/ DeleteStart(p)
    \/ DeleteRows(p, ok)
    \/ DeleteLast(p, ok)

EditSteps(p, ok) ==
    \/ \E k \in RowKinds, nan \in BOOLEAN : EditStart(p, k.Amount, nan)
    \/ EditRows(p, ok)
    \/ EditSave(p, ok)

\* the commands that write the ledger, of the reference revision and of the revision
\* with /delete and /edit, on a budget just set, one handler at a time, no storage failure
NextEdit == LogSteps(1, TRUE) \/ DeleteSteps(1, TRUE) \/ EditSteps(1, TRUE) \/ Tick
SpecEdit == InitLog /\ [][NextEdit]_vars

\* transactions and /resync on a budget just set, concurrently, no storage failure
NextMix == \E p \in Procs : LogSteps(p, TRUE) \/ ResyncSteps(p, TRUE)
SpecMix == InitLog /\ [][NextMix]_vars

\* ================================================================ claims
LogDone(p) == pc[p] = "idle" /\ loc[p].op = "log" /\ reply[p] = "Logged"

\* C1: a logTransaction that starts with an active budget whose
\* Fixed_Spent + Variable_Spent equals the sum of the ledger amounts, and runs with no
\* other handler and no storage failure, ends in such a state again (so the equality
\* survives any sequence of such calls).
C1_SequentialLogKeepsTotal ==
    \A p \in Procs : (LogDone(p) /\ loc[p].c0) => Consistent

C1_Witness ==
    /\ LogDone(1) /\ loc[1].c0
    /\ Len(ledger) = 2
    /\ budgetRows[1].Fixed_Spent > 0 /\ budgetRows[1].Variable_Spent > 0

\* C2: two logTransaction handlers on one active budget lose no increment: once both
\* have answered, each aggregate has grown by the amounts logged with its type.
C2_NoLostUpdate ==
    (Idle /\ budgetRows # <<>>) =>
        /\ budgetRows[1].Fixed_Spent = fixedTotal(ledger)
        /\ budgetRows[1].Variable_Spent = varTotal(ledger)

\* C3: a status read sees the ledger and the aggregates move together: with one
\* logTransaction and one status read on a budget set over an empty ledger, the
\* aggregates of the snapshot add up to the amounts of the ledger rows it was computed
\* from, however the two handlers interleave.
C3_StatusReadAtomic ==
    (ops <= 2 /\ snap.rev = "part_004" /\ snap.active) =>
        snap.fixedSpent + snap.varSpent = SumAmounts(snapRows)

\* C4: whenever a budget is active and no handler is running, after any sequence of
\* /budget, /clearbudget, transactions and /resync, Fixed_Spent + Variable_Spent equals
\* the sum of the ledger amounts.
C4_AggregateEqualsLedger ==
    (Idle /\ budgetRows # <<>>) => AggregateTotal = SumAmounts(ledger)

\* C5: Budget_Config never holds more than one budget row, also when two /budget
\* handlers run concurrently.
C5_AtMostOneBudgetRow == Len(budgetRows) <= 1

BudgetDone(p) ==
    pc[p] = "idle" /\ loc[p].op = "budget" /\ reply[p] \in {"BudgetSet", "SystemError"}

\* C6: after a /budget attempt, failed storage calls included, Budget_Config holds the
\* complete prior budget or the complete new one.
C6_ReplaceIsAtomic ==
    \A p \in Procs :
        BudgetDone(p) => budgetRows \in {loc[p].prior, <<NewBudgetRow(loc[p])>>}

\* C7: a logTransaction that answers with the success message on an active budget has
\* committed the ledger row and the aggregate increment.
C7_SuccessMeansCommitted ==
    \A p \in Procs :
        (LogDone(p) /\ loc[p].prior # <<>>) =>
            /\ ledger # <<>> /\ ledger[Len(ledger)] = LedgerRow(loc[p])
            /\ budgetRows = <<Increment(loc[p].prior[1], loc[p].type, loc[p].amount)>>

\* C8: the daily limit a status snapshot reports is never negative, whatever the
\* budget, the ledger and the evaluation time.
C8_DailyLimitNonNegative ==
    snap.active => RLe(RInt(0), snap.realDailyLimit)

\* ---- the simulator's inputs as the specification names them
ActiveSnap == snap.active /\ budgetRows # <<>>
totalDurationDays == budgetRows[1].End_Date - budgetRows[1].Start_Date + 1
baseDailyLimit ==
    Rat(budgetRows[1].Principal - budgetRows[1].Fixed_Spent, totalDurationDays)
\* the days from startDate through yesterday
WalkedDays == budgetRows[1].Start_Date .. (today - 1)
spentThatDay(d) == dailyMap(IF monthSheet THEN ledger ELSE <<>>, d)
NoSpendBefore == \A d \in WalkedDays : spentThatDay(d) = 0

\* C9: for every active budget, with no variable spending on the N days from startDate
\* through yesterday, the reported safetyBuffer is N * baseDailyLimit and the reported
\* dailyLimit is baseDailyLimit.
C9_NoSpend ==
    (ActiveSnap /\ snap.rev \in {"part_004", "bot"} /\ NoSpendBefore) =>
        /\ snap.piggyBank = RMulInt(baseDailyLimit, Cardinality(WalkedDays))
        /\ snap.realDailyLimit = baseDailyLimit

\* the overspend of the first walked day
OverspendK == RSub(RInt(spentThatDay(budgetRows[1].Start_Date)), baseDailyLimit)
OverspendByK ==
    /\ WalkedDays # {}
    /\ RLt(RInt(0), OverspendK)
    /\ \A d \in WalkedDays : RSub(RInt(spentThatDay(d)), baseDailyLimit) = OverspendK
\* the daily limit the simulator reports when run on day d
LimitOn(d) == calculateBudgetStats(budgetRows, monthSheet, ledger, d, 0).realDailyLimit

\* C10: if the variable spend of every day before today is baseDailyLimit + k for one
\* k > 0, safetyBuffer is 0 and the daily limit of each day is at most that of the day
\* before, up to the limit reported today.
C10_OverspendOnly ==
    (ActiveSnap /\ OverspendByK) =>
        /\ snap.piggyBank = RInt(0)
        /\ \A d \in WalkedDays : RLe(LimitOn(d + 1), LimitOn(d))
        /\ \A d \in WalkedDays : RLe(snap.realDailyLimit, LimitOn(d))

C10_Witness ==
    /\ ActiveSnap /\ OverspendByK
    /\ Cardinality(WalkedDays) >= 2
    /\ RLt(LimitOn(budgetRows[1].Start_Date + 1), LimitOn(budgetRows[1].Start_Date))
    /\ RLt(snap.realDailyLimit, LimitOn(budgetRows[1].Start_Date + 1))

\* ---- the walk as the specification words it: the state after the days
\* startDate..d, every day decrementing remaining first
VariableOn(rows, d) ==
    SumAmounts(SelectSeq(rows, LAMBDA r : r.Date = d /\ r.Type = "Variable"))

RECURSIVE ReferenceWalk(_, _, _)
ReferenceWalk(b, rows, d) ==
    LET total == b.End_Date - b.Start_Date + 1
    IN IF d < b.Start_Date
       THEN [currentLimit |-> Rat(b.Principal - b.Fixed_Spent, total),
             piggyBank |-> RInt(0), remaining |-> total]
       ELSE LET prev == ReferenceWalk(b, rows, d - 1)
                spent == RInt(VariableOn(rows, d))
                remaining == prev.remaining - 1
            IN [currentLimit |->
                    IF RLt(prev.currentLimit, spent) /\ remaining > 0
                    THEN RSub(prev.currentLimit,
                              RDivInt(RSub(spent, prev.currentLimit), remaining))
                    ELSE prev.currentLimit,
                piggyBank |->
                    IF RLt(spent, prev.currentLimit)
                    THEN RAdd(prev.piggyBank, RSub(prev.currentLimit, spent))
                    ELSE prev.piggyBank,
                remaining |-> remaining]

Reference ==
    ReferenceWalk(budgetRows[1], IF monthSheet THEN ledger ELSE <<>>, today - 1)

\* principal 300 over 10 days, 20 spent on day 1 and 45 on day 2, evaluated on day 3
Scenario ==
    calculateBudgetStats(
        <<[Start_Date |-> 1, End_Date |-> 10, Principal |-> 300, Fixed_Spent |-> 0,
           Variable_Spent |-> 65]>>,
        TRUE,
        <<[Date |-> 1, Amount |-> 20, Type |-> "Variable"],
          [Date |-> 2, Amount |-> 45, Type |-> "Variable"]>>,
        3, 0)

\* C11: for every budget, ledger and evaluation day the snapshot of
\* calculateBudgetStats carries the dailyLimit and safetyBuffer of the reference walk
\* (dailyLimit = max(0, currentLimit)); the 300 / 10 days / 20 / 45 scenario gives
\* dailyLimit 28.125 (225/8) and safetyBuffer 10 on day 3.
C11_ReferenceWalk ==
    /\ (ActiveSnap /\ snap.rev = "part_004") =>
          /\ snap.realDailyLimit = RMax(RInt(0), Reference.currentLimit)
          /\ snap.piggyBank = Reference.piggyBank
    /\ Scenario.realDailyLimit = Rat(225, 8)
    /\ Scenario.piggyBank = RInt(10)

C11_Witness ==
    /\ ActiveSnap /\ snap.rev = "part_004"
    /\ Cardinality(WalkedDays) >= 2
    /\ RLt(RInt(0), snap.piggyBank)
    /\ RLt(RInt(0), snap.realDailyLimit)
    /\ RLt(snap.realDailyLimit, baseDailyLimit)
    /\ snap.piggyBank = Reference.piggyBank

ResyncDone(p) == pc[p] = "idle" /\ loc[p].op = "resync" /\ reply[p] = "ResyncComplete"

\* C12: a /resync that completes right after a completed /resync, with no write in
\* between, leaves the budget row (Fixed_Spent and Variable_Spent) as the first left it.
C12_ResyncIdempotent ==
    \A p \in Procs : (ResyncDone(p) /\ loc[p].again) => budgetRows = loc[p].prior

C12_Witness ==
    /\ ResyncDone(1) /\ loc[1].again
    /\ budgetRows[1].Fixed_Spent > 0 /\ budgetRows[1].Variable_Spent > 0
    /\ budgetRows[1].Fixed_Spent # budgetRows[1].Variable_Spent

\* the ledger sums by type as the specification words them
SumOfFixed == SumAmounts(SelectSeq(ledger, LAMBDA r : r.Type = "Fixed"))
SumOfOthers == SumAmounts(SelectSeq(ledger, LAMBDA r : r.Type # "Fixed"))

\* C13: after a /resync that completes on an active budget with no concurrent writer,
\* Fixed_Spent is the sum of the Fixed ledger rows and Variable_Spent the sum of all
\* other ledger rows, whatever the aggregates were before.
C13_ResyncSums ==
    \A p \in Procs :
        ResyncDone(p) =>
            /\ budgetRows # <<>>
            /\ budgetRows[1].Fixed_Spent = SumOfFixed
            /\ budgetRows[1].Variable_Spent = SumOfOthers
            /\ AggregateTotal = SumAmounts(ledger)

C13_Witness ==
    /\ ResyncDone(1) /\ ~loc[1].again
    /\ loc[1].prior[1].Fixed_Spent = 7 /\ loc[1].prior[1].Variable_Spent = 7
    /\ budgetRows[1].Fixed_Spent = 2 /\ budgetRows[1].Variable_Spent = 1

\* C14: daysLeft of every snapshot is an integer >= 1, whenever it is evaluated: at the
\* last instant of endDate and at any time after endDate too.
C14_DaysLeftAtLeastOne ==
    snap.active => (snap.daysLeft \in Nat /\ snap.daysLeft >= 1)

C14_Witness ==
    /\ ActiveSnap /\ snap.rev = "part_004"
    /\ snap.now >= InclusiveEnd(budgetRows[1].End_Date)
    /\ snap.daysLeft = 1

\* C15: evaluated within the period (startDate <= today <= endDate), daysLeft is the
\* number of calendar days from today through endDate inclusive, which is
\* totalDurationDays minus the number of days walked.
C15_DaysLeftInPeriod ==
    (/\ ActiveSnap /\ snap.rev \in {"part_004", "bot"}
     /\ budgetRows[1].Start_Date <= today /\ today <= budgetRows[1].End_Date) =>
        /\ snap.daysLeft = budgetRows[1].End_Date - today + 1
        /\ snap.daysLeft = totalDurationDays - Cardinality(WalkedDays)

StatusDone(p) == pc[p] = "idle" /\ loc[p].op = "status" /\ reply[p] # "none"
ClearDone(p) == pc[p] = "idle" /\ loc[p].op = "clearbudget" /\ reply[p] = "Cleared"

\* C16: with no budget row in the store (never set, or cleared), a status read
\* (/api/status, /show) answers "inactive" with the snapshot {active: false} and no
\* error; and /clearbudget leaves the month ledger as it was.
C16_InactiveState ==
    \A p \in Procs :
        /\ (StatusDone(p) /\ budgetRows = <<>>) =>
              (reply[p] = "Inactive" /\ snap = [active |-> FALSE, rev |-> "part_004"])
        /\ ClearDone(p) => (budgetRows = <<>> /\ ledger = loc[p].ledger0)

C16_Witness ==
    /\ StatusDone(1) /\ reply[1] = "Inactive"
    /\ budgetSheet /\ budgetRows = <<>>
    /\ ledger # <<>>
    /\ snap = [active |-> FALSE, rev |-> "part_004"]

\* C17: a run of calculateBudgetStats changes nothing in the store: no step of a
\* status read adds, removes or modifies a row or creates a sheet.
C17_SimulatorReadOnly ==
    [][\A p \in Procs :
          (pc[p] \in {"st_bsheet", "st_rows", "st_month"} /\ pc'[p] # pc[p]) =>
              UNCHANGED <<budgetSheet, budgetRows, monthSheet, ledger>>]_vars

\* C18: /budget writes a budget only if startDate and endDate both lie in the
\* current calendar month; a command with a date of another month is rejected and
\* the store keeps what it held.
C18_CurrentMonthOnly ==
    \A p \in Procs :
        (/\ pc[p] = "idle" /\ loc[p].op = "budget"
         /\ ~(loc[p].start \in MonthDays /\ loc[p].end \in MonthDays)) =>
            /\ reply[p] \in {"AmountNaN", "InvalidStart", "InvalidEnd", "StartAfterEnd"}
            /\ budgetRows = loc[p].prior

\* what the specification asks of a /budget command: a numeric amount, two real
\* calendar dates, start <= end
ValidCommand(l) ==
    ~l.nan /\ l.start \in RealDates /\ l.end \in RealDates /\ l.start <= l.end

\* C19: a /budget command that fails validation (amount not a number, a date that is
\* no calendar date, start > end) is answered with a validation message and leaves the
\* budget store and the ledger as they were; a command that passes validation leaves
\* exactly one budget row, with Fixed_Spent = 0 and Variable_Spent = 0.
C19_ValidationBeforeWrite ==
    \A p \in Procs :
        (pc[p] = "idle" /\ loc[p].op = "budget" /\ reply[p] # "none") =>
            IF ValidCommand(loc[p])
            THEN budgetRows = <<NewBudgetRow(loc[p])>>
            ELSE /\ reply[p] \in {"AmountNaN", "InvalidStart", "InvalidEnd", "StartAfterEnd"}
                 /\ budgetRows = loc[p].prior
                 /\ ledger = loc[p].ledger0

LogPcs == {"log_sheet", "log_add", "log_retry", "log_bsheet", "log_rows", "log_save"}

\* C20: every logTransaction handler ends with a reply whatever storage calls fail;
\* the ledger append is attempted at most twice, and when both attempts fail the
\* reply is the generic failure and nothing was appended.
C20_BoundedRetry ==
    /\ [](\A p \in Procs :
            /\ loc[p].attempts <= 2
            /\ (pc[p] = "idle" /\ loc[p].op = "log" /\ ~loc[p].nan) =>
                  /\ reply[p] \in {"Logged", "ErrorSaving"}
                  /\ (reply[p] = "ErrorSaving" /\ loc[p].attempts = 2) =>
                        Len(ledger) = Len(loc[p].ledger0))
    /\ \A p \in Procs : (pc[p] \in LogPcs) ~> (pc[p] = "idle" /\ reply[p] # "none")

C20_Witness ==
    /\ pc[1] = "idle" /\ loc[1].op = "log"
    /\ loc[1].attempts = 2
    /\ reply[1] = "ErrorSaving"

\* ---- the figures of the daily-limit accounting in a snapshot
Accounting(stats) ==
    <<stats.daysLeft, stats.piggyBank, stats.realDailyLimit, stats.spentToday,
      stats.leftToday>>
\* the month sheet without its Fixed rows
DropFixed(rows) == SelectSeq(rows, LAMBDA r : r.Type # "Fixed")
\* the budget row with the fixed spending already taken off the principal
Disposable(row) == [row EXCEPT !.Principal = @ - row.Fixed_Spent, !.Fixed_Spent = 0]
SeenRows == IF monthSheet THEN ledger ELSE <<>>
SnapDay == snap.now \div TicksPerDay
SnapTod == snap.now % TicksPerDay

\* C21: only Variable rows take part in the daily-limit accounting: a Fixed ledger row
\* adds to no day's spentThatDay and not to spentToday (the figures are those of the
\* month sheet without its Fixed rows), and fixed spending reaches the figures only
\* through disposableTotal = principal - fixedSpent.
C21_OnlyVariableCounts ==
    (ActiveSnap /\ snap.rev = "part_004") =>
        /\ \A d \in RealDates : dailyMap(SeenRows, d) = VariableOn(DropFixed(SeenRows), d)
        /\ snap.spentToday = VariableOn(DropFixed(SeenRows), SnapDay)
        /\ Accounting(snap) =
              Accounting(calculateBudgetStats(budgetRows, monthSheet, DropFixed(ledger),
                                              SnapDay, SnapTod))
        /\ Accounting(snap) =
              Accounting(calculateBudgetStats(<<Disposable(budgetRows[1])>>, monthSheet,
                                              ledger, SnapDay, SnapTod))

C21_Witness ==
    /\ ActiveSnap /\ snap.rev = "part_004"
    /\ Len(ledger) = 2
    /\ ledger[1].Type = "Fixed" /\ ledger[1].Date \in WalkedDays
    /\ ledger[2].Type = "Fixed" /\ ledger[2].Date = today
    /\ budgetRows[1].Fixed_Spent = 4
    /\ snap.spentToday = 0
    /\ RLt(RInt(0), snap.piggyBank)

\* C22: in every status snapshot of an active budget spentToday is the sum of the
\* Variable amounts dated today among the rows read, leftToday is
\* dailyLimit - spentToday, and isWarning is true exactly when leftToday < 0.
C22_TodayFigures ==
    (snap.active /\ snap.rev = "part_004") =>
        /\ snap.spentToday = VariableOn(snapRows, SnapDay)
        /\ snap.leftToday = RSub(snap.realDailyLimit, RInt(snap.spentToday))
        /\ snap.isWarning = (snap.leftToday.n < 0)

C22_Witness ==
    /\ StatusDone(1) /\ reply[1] = "Active"
    /\ snap.active /\ snap.rev = "part_004"
    /\ Len(snapRows) = 1 /\ snapRows[1].Type = "Variable"
    /\ snap.spentToday = 2
    /\ snap.leftToday = RInt(-1)
    /\ snap.isWarning

\* C23: the ledger is append-only: no command the bot accepts deletes or modifies an
\* existing ledger row, so the rows present at one time are a prefix of the rows
\* present at any later time.
C23_AppendOnly ==
    [][/\ Len(ledger) <= Len(ledger')
       /\ SubSeq(ledger', 1, Len(ledger)) = ledger]_vars

\* ---- the states of the day walk: currentDailyLimit, piggyBank and
\* currentDaysRemaining before the loop and after the iteration of day d
WalkInit ==
    LET row == budgetRows[1]
        totalDuration == Ceil(InclusiveEnd(row.End_Date) - DateOf(row.Start_Date),
                              TicksPerDay)
    IN [lim |-> Rat(row.Principal - row.Fixed_Spent, totalDuration), pig |-> RInt(0),
        rem |-> totalDuration]
WalkAfter(d) == Walk(SeenRows, budgetRows[1].Start_Date, d, WalkInit)
Underspent(d) == RLt(RInt(spentThatDay(d)), WalkAfter(d - 1).lim)
Overspent(d) == RLt(WalkAfter(d - 1).lim, RInt(spentThatDay(d)))
WalkSnap == ActiveSnap /\ snap.rev = "part_004"

\* C24: at every step of the day walk piggyBank does not decrease and is >= 0 and
\* currentLimit does not increase; an underspend day leaves currentLimit unchanged and
\* an overspend day leaves piggyBank unchanged; so the reported dailyLimit is at most
\* max(0, baseDailyLimit) and safetyBuffer >= 0, for every ledger.
C24_AsymmetricCarryForward ==
    WalkSnap =>
        /\ \A d \in WalkedDays :
              /\ RLe(WalkAfter(d - 1).pig, WalkAfter(d).pig)
              /\ RLe(RInt(0), WalkAfter(d).pig)
              /\ RLe(WalkAfter(d).lim, WalkAfter(d - 1).lim)
              /\ Underspent(d) => WalkAfter(d).lim = WalkAfter(d - 1).lim
              /\ Overspent(d) => WalkAfter(d).pig = WalkAfter(d - 1).pig
        /\ snap.piggyBank = WalkAfter(today - 1).pig
        /\ snap.realDailyLimit = RMax(RInt(0), WalkAfter(today - 1).lim)
        /\ RLe(snap.realDailyLimit, RMax(RInt(0), baseDailyLimit))
        /\ RLe(RInt(0), snap.piggyBank)

C24_Witness ==
    /\ WalkSnap
    /\ \E d \in WalkedDays, e \in WalkedDays :
          /\ d < e
          /\ Overspent(d) /\ RLt(WalkAfter(d).lim, WalkAfter(d - 1).lim)
          /\ Underspent(e) /\ RLt(WalkAfter(e - 1).pig, WalkAfter(e).pig)
    /\ RLt(snap.realDailyLimit, baseDailyLimit)
    /\ RLt(RInt(0), snap.piggyBank)

Finite(r) == r.d > 0

\* C25: on an overspend day after which no day remains (the remaining-days counter is
\* 0 after its decrement) the amortisation is skipped: currentLimit is left unchanged,
\* nothing is divided by zero, and every figure of the walk and of the snapshot is
\* finite.
C25_FinalDayGuard ==
    WalkSnap =>
        /\ \A d \in WalkedDays :
              /\ (Overspent(d) /\ WalkAfter(d).rem = 0) =>
                    WalkAfter(d).lim = WalkAfter(d - 1).lim
              /\ Finite(WalkAfter(d).lim) /\ Finite(WalkAfter(d).pig)
        /\ Finite(snap.realDailyLimit) /\ Finite(snap.piggyBank) /\ Finite(snap.leftToday)

C25_Witness ==
    /\ WalkSnap
    /\ today = budgetRows[1].End_Date + 1
    /\ budgetRows[1].Start_Date < budgetRows[1].End_Date
    /\ Overspent(today - 1)
    /\ WalkAfter(today - 1).rem = 0
    /\ RLt(RInt(0), snap.realDailyLimit)
    /\ snap.realDailyLimit = WalkAfter(today - 2).lim

\* C26: one /resync and one logTransaction on the same active budget, however they
\* interleave: once both have completed, Fixed_Spent and Variable_Spent are the sums
\* by type of the final ledger (the new row is neither missed nor counted twice).
C26_ResyncWithLog ==
    (/\ Idle /\ ops = 2 /\ budgetRows # <<>>
     /\ \E p \in Procs, q \in Procs : LogDone(p) /\ ResyncDone(q)) =>
        /\ budgetRows[1].Fixed_Spent = fixedTotal(ledger)
        /\ budgetRows[1].Variable_Spent = varTotal(ledger)

\* C27: a logTransaction of a Variable amount, dated the day it is logged, changes only
\* that day's figures: evaluated on that day with the store as it was before and as it is
\* after the write, dailyLimit, safetyBuffer and daysLeft are the same, spentToday has
\* grown by the amount and leftToday has fallen by the amount.
C27_WriteMovesTodayOnly ==
    \A p \in Procs :
        (LogDone(p) /\ loc[p].type = "Variable" /\ loc[p].prior # <<>>) =>
            \A tod \in Tods :
                LET before == calculateBudgetStats(loc[p].prior, TRUE, loc[p].ledger0,
                                                   loc[p].date, tod)
                    after == calculateBudgetStats(budgetRows, monthSheet, ledger,
                                                  loc[p].date, tod)
                IN /\ after.realDailyLimit = before.realDailyLimit
                   /\ after.piggyBank = before.piggyBank
                   /\ after.daysLeft = before.daysLeft
                   /\ after.spentToday = before.spentToday + loc[p].amount
                   /\ after.leftToday = RSub(before.leftToday, RInt(loc[p].amount))

C27_Witness ==
    /\ LogDone(1) /\ loc[1].type = "Variable" /\ loc[1].prior # <<>>
    /\ loc[1].date = today
    /\ loc[1].date > budgetRows[1].Start_Date
    /\ Len(ledger) = 2 /\ ledger[1].Type = "Variable" /\ ledger[1].Date < today
    /\ ledger[2] = LedgerRow(loc[1])
    /\ RLt(calculateBudgetStats(budgetRows, monthSheet, ledger, today, 0).realDailyLimit,
           baseDailyLimit)

\* C28: whenever the status is evaluated, after endDate too, the walk visits at most
\* totalDurationDays days, currentDaysRemaining stays within 0..totalDurationDays, and
\* no day after endDate credits the piggy bank.
C28_WalkWithinPeriod ==
    WalkSnap =>
        /\ Cardinality(WalkedDays) <= totalDurationDays
        /\ \A d \in WalkedDays :
              /\ WalkAfter(d).rem \in 0..totalDurationDays
              /\ d > budgetRows[1].End_Date => WalkAfter(d).pig = WalkAfter(d - 1).pig

\* the days of the budget period and the Variable spending dated in it
Period == budgetRows[1].Start_Date .. budgetRows[1].End_Date
SpentInPeriod ==
    SumAmounts(SelectSeq(SeenRows, LAMBDA r : r.Type = "Variable" /\ r.Date \in Period))
disposableTotal == budgetRows[1].Principal - budgetRows[1].Fixed_Spent
OnLimit(d) == RInt(spentThatDay(d)) = WalkAfter(d - 1).lim

C30_FailedAppendChangesNothing ==
    \A p \in Procs :
        /\ loc[p].replies <= 1
        /\ (pc[p] = "idle" /\ loc[p].op = "log") =>
              /\ loc[p].replies = 1
              /\ (loc[p].attempts = 2 /\ Len(ledger) = Len(loc[p].ledger0)) =>
                    reply[p] = "ErrorSaving"
              /\ (loc[p].attempts = 2 /\ reply[p] = "ErrorSaving") =>
                    (ledger = loc[p].ledger0 /\ budgetRows = loc[p].prior)
              /\ reply[p] = "Logged" =>
                    ledger = Append(loc[p].ledger0, LedgerRow(loc[p]))

C30_Witness ==
    /\ pc[1] = "idle" /\ loc[1].op = "log" /\ loc[1].replies = 1
    /\ loc[1].attempts = 2 /\ reply[1] = "ErrorSaving"
    /\ loc[1].ledger0 # <<>> /\ ledger = loc[1].ledger0
    /\ loc[1].prior[1].Variable_Spent > 0 /\ budgetRows = loc[1].prior

====
